---- MODULE Spec2Model ----
(***************************************************************************)
(* Verification model of motd-embed-api (src/src/motd_embed_api).          *)
(*                                                                         *)
(* Strings are modelled as sequences of one-character strings, so that     *)
(* splitting, integer parsing, escaping and tokenizing are computed the    *)
(* way the code computes them.                                             *)
(*                                                                         *)
(* The module holds several specifications over one set of variables:      *)
(*   SpecResolve  parse_server_address as a function of its input and of   *)
(*                the resolver's answer for the host (server.py)           *)
(*   SpecCache    ThreadSafeTTLCache driven through its four methods       *)
(*                (cache.py)                                               *)
(*   SpecParse    the loop of parse_motd (motd_parser.py)                  *)
(*   SpecFavicon  validate_favicon as a function of its input               *)
(*                (html_generator.py)                                      *)
(*   Spec         concurrent request handlers running get_server_embed     *)
(*                -> get_cached_server_info -> get_server_info             *)
(*                (main.py, cache.py, server.py)                           *)
(* Each specification leaves the variables of the other parts untouched.   *)
(***************************************************************************)
EXTENDS Integers, Sequences, FiniteSets, TLC

VARIABLES
    \* --- address resolver (SpecResolve)
    addr_ip,        \* the raw "host" or "host:port" argument
    addr_dns,       \* what resolving the host gives (environment)
    addr_result,    \* outcome of parse_server_address, NoResult before the call
    \* --- cache object (SpecCache and Spec)
    cache,          \* the TTLCache inside _server_cache
    now,            \* the cache's timer
    last_op,        \* the cache method call that ran last (SpecCache)
    usage,          \* stored keys by last successful access, oldest first (SpecCache)
    written,        \* per key: the latest set (value, time, removed since)
    \* --- request handlers (Spec)
    lock,           \* holder of _server_cache._lock, or NoHandler
    pc,             \* per handler: position in get_server_embed
    req,            \* per handler: locals and the events of the current request
    \* --- parse_motd (SpecParse)
    motd_text,      \* the argument of parse_motd
    parts,          \* result of re.split on the escaped text
    part_idx,       \* index of the next part the loop will take
    current_classes,
    html_parts,
    motd_pc,
    \* --- validate_favicon (SpecFavicon)
    favicon,        \* the argument of validate_favicon
    favicon_valid   \* what the call returned, "not_called" before it

resolve_vars == <<addr_ip, addr_dns, addr_result>>
cache_vars   == <<cache, now>>
api_vars     == <<last_op, usage, written>>
handler_vars == <<lock, pc, req>>
parse_vars   == <<motd_text, parts, part_idx, current_classes, html_parts, motd_pc>>
favicon_vars == <<favicon, favicon_valid>>
vars == <<resolve_vars, cache_vars, api_vars, handler_vars, parse_vars, favicon_vars>>

----------------------------------------------------------------------------
(* Generic helpers on sequences *)

SeqToSet(s) == {s[i] : i \in 1..Len(s)}

\* All sequences over S of length 0..n
RECURSIVE SeqsUpTo(_, _)
SeqsUpTo(S, n) ==
    IF n = 0 THEN {<<>>}
    ELSE LET shorter == SeqsUpTo(S, n - 1)
         IN  shorter \cup {Append(s, x) : s \in shorter, x \in S}

RECURSIVE Flatten(_)
Flatten(ss) == IF ss = <<>> THEN <<>> ELSE Head(ss) \o Flatten(Tail(ss))

----------------------------------------------------------------------------
(* server.py: address parsing and validation *)

Digits == {"0", "1", "2", "3", "4", "5", "6", "7", "8", "9"}

DigitVal(c) ==
    CASE c = "0" -> 0 [] c = "1" -> 1 [] c = "2" -> 2 [] c = "3" -> 3
      [] c = "4" -> 4 [] c = "5" -> 5 [] c = "6" -> 6 [] c = "7" -> 7
      [] c = "8" -> 8 [] c = "9" -> 9

DigitChar(d) ==
    CASE d = 0 -> "0" [] d = 1 -> "1" [] d = 2 -> "2" [] d = 3 -> "3"
      [] d = 4 -> "4" [] d = 5 -> "5" [] d = 6 -> "6" [] d = 7 -> "7"
      [] d = 8 -> "8" [] d = 9 -> "9"

\* Decimal text of a natural number (used to write the inputs only).
RECURSIVE Dec(_)
Dec(n) == IF n < 10 THEN <<DigitChar(n)>> ELSE Append(Dec(n \div 10), DigitChar(n % 10))

\* int(port_str): an optional sign followed by decimal digits; anything else
\* raises ValueError.  (Surrounding blanks and "_" separators, which int()
\* also takes, are outside the input alphabet.)
IntBody(s) == IF s # <<>> /\ Head(s) \in {"-", "+"} THEN Tail(s) ELSE s

IsInt(s) == IntBody(s) # <<>> /\ \A i \in 1..Len(IntBody(s)) : IntBody(s)[i] \in Digits

RECURSIVE NatOf(_)
NatOf(s) == IF s = <<>> THEN 0 ELSE 10 * NatOf(SubSeq(s, 1, Len(s) - 1)) + DigitVal(s[Len(s)])

IntOf(s) == IF Head(s) = "-" THEN 0 - NatOf(IntBody(s)) ELSE NatOf(IntBody(s))

\* The kinds of address a host can denote or resolve to; "gaierror" is a
\* failed lookup.
IpKinds == {"public", "private", "loopback", "link_local", "reserved", "multicast"}

DnsAnswers == IpKinds \cup {"gaierror"}

default_port == 25565

blocked_ports == {20, 21, 22, 23, 25, 80, 443, 110, 143, 3306, 5432, 6379, 27017}

\* is_private_ip: "unresolved" stands for the ValueError "Cannot resolve
\* hostname"; otherwise the disjunction of the five address properties.
is_private_ip_no_multicast(dns) ==
    IF dns = "gaierror" THEN "unresolved"
    ELSE IF dns \in {"private", "loopback", "link_local", "reserved"} THEN "yes" ELSE "no"

is_private_ip(dns) ==
    IF dns = "gaierror" THEN "unresolved"
    ELSE IF \/ dns = "private"
            \/ dns = "loopback"
            \/ dns = "link_local"
            \/ dns = "reserved"
            \/ dns = "multicast"
         THEN "yes" ELSE "no"

\* validate_server_address: the error it raises, or "none".  looked_up tells
\* whether is_private_ip was called.
validate_host_first(port, dns) ==
    LET p == is_private_ip(dns)
    IN  IF p = "unresolved" THEN [err |-> "UnresolvableHost", looked_up |-> TRUE]
        ELSE IF p = "yes" THEN [err |-> "PrivateAddress", looked_up |-> TRUE]
        ELSE IF ~(1 <= port /\ port <= 65535) THEN [err |-> "InvalidPort", looked_up |-> TRUE]
        ELSE IF port \in blocked_ports THEN [err |-> "BlockedPort", looked_up |-> TRUE]
        ELSE [err |-> "none", looked_up |-> TRUE]

validate_server_address(port, dns) ==
    IF ~(1 <= port /\ port <= 65535) THEN [err |-> "InvalidPort", looked_up |-> FALSE]
    ELSE IF port \in blocked_ports THEN [err |-> "BlockedPort", looked_up |-> FALSE]
    ELSE LET p == is_private_ip(dns)
         IN  IF p = "unresolved" THEN [err |-> "UnresolvableHost", looked_up |-> TRUE]
             ELSE IF p = "yes" THEN [err |-> "PrivateAddress", looked_up |-> TRUE]
             ELSE [err |-> "none", looked_up |-> TRUE]

\* Index of the last ":" of s, 0 when there is none (ip.rsplit(':', 1)).
LastColon(s) ==
    LET at == {i \in 1..Len(s) : s[i] = ":"}
    IN  IF at = {} THEN 0 ELSE CHOOSE i \in at : \A j \in at : j <= i

\* parse_server_address(ip), given what the host resolves to.  The result
\* has err = "none" and the (host, port) pair, or the error raised.
parse_server_address(ip, dns) ==
    LET c == LastColon(ip)
        host == IF c = 0 THEN ip ELSE SubSeq(ip, 1, c - 1)
        port_str == IF c = 0 THEN <<>> ELSE SubSeq(ip, c + 1, Len(ip))
    IN  IF c # 0 /\ ~IsInt(port_str)
        THEN [err |-> "InvalidPort", host |-> host, port |-> 0, looked_up |-> FALSE]
        ELSE LET port == IF c = 0 THEN default_port ELSE IntOf(port_str)
                 v == validate_server_address(port, dns)
             IN  [err |-> v.err, host |-> host, port |-> port, looked_up |-> v.looked_up]

ResolveErrors == {"InvalidPort", "BlockedPort", "UnresolvableHost", "PrivateAddress"}

\* Inputs of SpecResolve: a host alone, or a host, ":" and a port text.
Hosts == {<<"h">>, <<"h", "2">>, <<":", ":", "1">>}

PortSamples == blocked_ports \cup {0, 1, 19, 24, 81, 25565, 65535, 65536}

PortTexts ==
    {Dec(n) : n \in PortSamples}
        \cup {<<>>, <<"x">>, <<"0", "8", "0">>, <<"-", "1">>, <<"+", "2", "2">>}

RawInputs == Hosts \cup {h \o <<":">> \o p : h \in Hosts, p \in PortTexts}

NoResult == [err |-> "not_called"]

InitResolve ==
    /\ addr_ip \in RawInputs
    /\ addr_dns = "gaierror"
    /\ addr_result = NoResult

IdleResolve ==
    /\ addr_ip = <<>>
    /\ addr_dns = "gaierror"
    /\ addr_result = NoResult

\* One call of parse_server_address(addr_ip); the environment decides what
\* the host resolves to.
Resolve ==
    /\ addr_result = NoResult
    /\ \E d \in DnsAnswers :
          /\ addr_dns' = d
          /\ addr_result' = parse_server_address(addr_ip, d)
    /\ UNCHANGED <<addr_ip, cache_vars, api_vars, handler_vars, parse_vars, favicon_vars>>

----------------------------------------------------------------------------
(* cache.py: ThreadSafeTTLCache over cachetools.TTLCache *)

\* _server_cache = ThreadSafeTTLCache(maxsize=1000, ttl_seconds=30).  The
\* model keeps the time to live and builds the cache with a small capacity;
\* the timer moves in steps of TickLength seconds and stops once an entry
\* written at time 0 has expired.
maxsize == 2

ttl_seconds == 30

TickLength == 15

\* Python's None.  Cached values are records, and so is None, so that a value
\* can be compared with it.
None == [none |-> TRUE]

\* The cache is the sequence of its entries in the order of the TTLCache's
\* link table: least recently used first.  Each entry carries its key, its
\* value and the time it expires (set time + ttl).
EmptyCache == <<>>

KeysOf(c) == {c[i].key : i \in 1..Len(c)}

EntryOf(c, k) == c[CHOOSE i \in 1..Len(c) : c[i].key = k]

LiveKeys(c, t) == {c[i].key : i \in {j \in 1..Len(c) : t < c[j].expires}}

\* TTLCache.expire(time): drop every entry with not (time < expires).
TTLCache_expire(c, t) == SelectSeq(c, LAMBDA e : t < e.expires)

\* TTLCache.popitem(): expire, then remove the least recently used entry.
TTLCache_popitem(c, t) ==
    LET live == TTLCache_expire(c, t)
    IN  IF live = <<>> THEN live ELSE Tail(live)

\* The loop of Cache.__setitem__ for a key that is not stored: pop items
\* while there is no room for one more.
RECURSIVE EvictForOne(_, _)
EvictForOne(c, t) ==
    IF Len(c) + 1 > maxsize /\ c # <<>> THEN EvictForOne(TTLCache_popitem(c, t), t) ELSE c

\* ThreadSafeTTLCache.set: self._cache[key] = value.
TTLCache_setitem_no_evict(c, k, v, t) ==
    Append(SelectSeq(TTLCache_expire(c, t), LAMBDA e : e.key # k),
           [key |-> k, value |-> v, expires |-> t + ttl_seconds])

TTLCache_setitem(c, k, v, t) ==
    LET live == TTLCache_expire(c, t)
        room == IF k \notin KeysOf(live) THEN EvictForOne(live, t) ELSE live
    IN  Append(SelectSeq(room, LAMBDA e : e.key # k),
               [key |-> k, value |-> v, expires |-> t + ttl_seconds])

\* ThreadSafeTTLCache.get: self._cache.get(key).  A stored, unexpired key is
\* moved to the most recently used end and its value returned; otherwise
\* None, and the cache is left as it is (an expired entry stays until the
\* next set purges it).
TTLCache_get_sliding(c, k, t) ==
    IF k \in KeysOf(c) /\ t < EntryOf(c, k).expires
    THEN [cache |-> Append(SelectSeq(c, LAMBDA e : e.key # k),
                           [EntryOf(c, k) EXCEPT !.expires = t + ttl_seconds]),
          result |-> EntryOf(c, k).value]
    ELSE [cache |-> c, result |-> None]

TTLCache_get_no_touch(c, k, t) ==
    IF k \in KeysOf(c) /\ t < EntryOf(c, k).expires
    THEN [cache |-> c, result |-> EntryOf(c, k).value]
    ELSE [cache |-> c, result |-> None]

TTLCache_get(c, k, t) ==
    IF k \in KeysOf(c) /\ t < EntryOf(c, k).expires
    THEN [cache |-> Append(SelectSeq(c, LAMBDA e : e.key # k), EntryOf(c, k)),
          result |-> EntryOf(c, k).value]
    ELSE [cache |-> c, result |-> None]

\* ThreadSafeTTLCache.clear
TTLCache_clear(c) == EmptyCache

\* ThreadSafeTTLCache.size: len(self._cache), which leaves expired entries out.
TTLCache_len(c, t) == Len(TTLCache_expire(c, t))

\* --- SpecCache: the four methods called in any order, and the timer.
CacheKeys == 1..(maxsize + 1)

CacheValues == {[online |-> TRUE], [online |-> FALSE]}

NeverWritten == [set |-> FALSE, value |-> None, time |-> 0, removed |-> FALSE]

\* What is kept of the method call that has just returned (nothing once the
\* timer has moved on): the method, its key, what it returned (result of
\* get, count of size), the keys it took out of the cache, and what the
\* cache held just before it: whether the key was stored and unexpired,
\* whether maxsize unexpired entries were stored, and which of them was the
\* least recently accessed, and whether that one had more time left than
\* another of them.
NoOp ==
    [op |-> "none", key |-> 0, result |-> None, count |-> 0,
     removed |-> {}, was_live |-> FALSE, was_full |-> FALSE, lru_before |-> 0,
     lru_outlives |-> FALSE]

Removed == [set |-> TRUE, value |-> None, time |-> 0, removed |-> TRUE]

\* Record in `written` the keys an operation took out of the cache (evicted,
\* purged after expiry, or cleared): what was written to them is forgotten.
MarkRemoved(w, before, after) ==
    [k \in DOMAIN w |-> IF k \in KeysOf(before) \ KeysOf(after) THEN Removed ELSE w[k]]

\* `usage` after an access to key k, and after an operation that left only
\* the keys of `after` in the cache.
Touch(u, k) == Append(SelectSeq(u, LAMBDA x : x # k), k)

Stored(u, after) == SelectSeq(u, LAMBDA x : x \in KeysOf(after))

\* The least recently accessed key of S according to `usage`, 0 if S is empty.
LeastRecent(u, S) ==
    LET in_S == SelectSeq(u, LAMBDA x : x \in S)
    IN  IF in_S = <<>> THEN 0 ELSE Head(in_S)

OpRecord(op, k, result, count, after) ==
    [op |-> op, key |-> k, result |-> result, count |-> count,
     removed |-> KeysOf(cache) \ KeysOf(after),
     was_live |-> k \in LiveKeys(cache, now),
     was_full |-> Cardinality(LiveKeys(cache, now)) = maxsize,
     lru_before |-> LeastRecent(usage, LiveKeys(cache, now)),
     lru_outlives |->
        LET live == LiveKeys(cache, now)
            lru == LeastRecent(usage, live)
        IN  /\ lru \in live
            /\ \E k2 \in live : EntryOf(cache, k2).expires < EntryOf(cache, lru).expires]

InitCacheObject ==
    /\ cache = EmptyCache
    /\ now = 0

InitApi ==
    /\ last_op = NoOp
    /\ usage = <<>>
    /\ written = [k \in CacheKeys |-> NeverWritten]

IdleApi ==
    /\ last_op = NoOp
    /\ usage = <<>>
    /\ written = <<>>

ApiGet(k) ==
    LET r == TTLCache_get(cache, k, now)
    IN  /\ cache' = r.cache
        /\ last_op' = OpRecord("get", k, r.result, 0, r.cache)
        /\ usage' = Stored(IF r.result # None THEN Touch(usage, k) ELSE usage, r.cache)
        /\ written' = MarkRemoved(written, cache, r.cache)
        /\ UNCHANGED <<now, resolve_vars, handler_vars, parse_vars, favicon_vars>>

ApiSet(k, v) ==
    LET after == TTLCache_setitem(cache, k, v, now)
    IN  /\ cache' = after
        /\ last_op' = OpRecord("set", k, None, 0, after)
        /\ usage' = Stored(Touch(usage, k), after)
        /\ written' = [MarkRemoved(written, cache, after) EXCEPT
                          ![k] = [set |-> TRUE, value |-> v, time |-> now, removed |-> FALSE]]
        /\ UNCHANGED <<now, resolve_vars, handler_vars, parse_vars, favicon_vars>>

ApiClear ==
    /\ cache' = TTLCache_clear(cache)
    /\ last_op' = OpRecord("clear", 0, None, 0, EmptyCache)
    /\ usage' = <<>>
    /\ written' = MarkRemoved(written, cache, EmptyCache)
    /\ UNCHANGED <<now, resolve_vars, handler_vars, parse_vars, favicon_vars>>

ApiSize ==
    /\ last_op' = OpRecord("size", 0, None, TTLCache_len(cache, now), cache)
    /\ UNCHANGED <<cache, now, usage, written, resolve_vars, handler_vars, parse_vars, favicon_vars>>

\* The timer advances.
TickApi ==
    /\ now < ttl_seconds
    /\ now' = now + TickLength
    /\ last_op' = NoOp
    /\ UNCHANGED <<cache, usage, written, resolve_vars, handler_vars, parse_vars, favicon_vars>>

----------------------------------------------------------------------------
(* server.py: fetch_server_status and get_server_info *)

\* What JavaServer(host, port).status() does: it returns a status response or
\* raises.  "Exception" stands for an exception whose class is none of the
\* four the except clause of fetch_server_status names.
CaughtExceptions == {"socket.timeout", "ConnectionRefusedError", "OSError", "ValueError"}

UpstreamOutcomes == {"status"} \cup CaughtExceptions \cup {"Exception"}

\* fetch_server_status(ip): the status (or None), the exception that leaves
\* the function, the error of the address if it was rejected, and whether
\* the server was contacted.
fetch_server_status_narrow(ip, dns, upstream) ==
    LET a == parse_server_address(ip, dns)
    IN  IF a.err # "none"
        THEN [status |-> "None", raised |-> "none", resolve_err |-> a.err,
              upstream |-> "not_called"]
        ELSE IF upstream = "status"
        THEN [status |-> "status", raised |-> "none", resolve_err |-> "none",
              upstream |-> upstream]
        ELSE IF upstream \in {"socket.timeout", "ConnectionRefusedError"}
        THEN [status |-> "None", raised |-> "none", resolve_err |-> "none",
              upstream |-> upstream]
        ELSE [status |-> "None", raised |-> upstream, resolve_err |-> "none",
              upstream |-> upstream]

fetch_server_status(ip, dns, upstream) ==
    LET a == parse_server_address(ip, dns)
    IN  IF a.err # "none"
        \* parse_server_address raised ValueError, which the except clause takes
        THEN [status |-> "None", raised |-> "none", resolve_err |-> a.err,
              upstream |-> "not_called"]
        ELSE IF upstream = "status"
        THEN [status |-> "status", raised |-> "none", resolve_err |-> "none",
              upstream |-> upstream]
        ELSE IF upstream \in CaughtExceptions
        THEN [status |-> "None", raised |-> "none", resolve_err |-> "none",
              upstream |-> upstream]
        ELSE [status |-> "None", raised |-> upstream, resolve_err |-> "none",
              upstream |-> upstream]

\* The snapshot get_server_info builds when the status is None.
OfflineInfo(ip) ==
    [online |-> FALSE, motd |-> "Server Offline", server_name |-> ip,
     players_online |-> 0, players_max |-> 0, version |-> "Unknown", favicon |-> "None"]

\* The snapshot built from the status response of the one server of the model
\* (a text description, 3 of 20 players, version "1.20", an icon).
OnlineInfo ==
    [online |-> TRUE, motd |-> "A Minecraft Server", server_name |-> <<"1", ".", "2", "0">>,
     players_online |-> 3, players_max |-> 20, version |-> "1.20",
     favicon |-> "data:image/png;base64,AAAA"]

\* get_server_info(ip): the snapshot returned, or the exception propagated.
get_server_info(ip, dns, upstream) ==
    LET f == fetch_server_status(ip, dns, upstream)
    IN  [info |-> IF f.raised # "none" THEN None
                  ELSE IF f.status = "None" THEN OfflineInfo(ip) ELSE OnlineInfo,
         raised |-> f.raised, resolve_err |-> f.resolve_err, upstream |-> f.upstream]

----------------------------------------------------------------------------
(* main.py get_server_embed and cache.py get_cached_server_info, run by
   concurrent request handlers *)

Handlers == {"h1", "h2"}

NoHandler == "none"

\* The addresses requested: "h", "h:25565" and "h:80".
Requests == {<<"h">>, <<"h", ":", "2", "5", "5", "6", "5">>, <<"h", ":", "8", "0">>}

NoRequest ==
    [ip |-> <<>>, server_info |-> None, raised |-> "none", resolve_err |-> "not_called",
     upstream |-> "not_called", events |-> <<>>, fetched_at |-> -1, status_code |-> 0]

\* The try/except of get_server_embed: the status code of the response.
http_status(raised) ==
    IF raised = "none" THEN 200
    ELSE IF raised = "ValueError" THEN 400
    ELSE 500

InitHandlers ==
    /\ lock = NoHandler
    /\ pc = [h \in Handlers |-> "idle"]
    /\ req = [h \in Handlers |-> NoRequest]

IdleHandlers ==
    /\ lock = NoHandler
    /\ pc = <<>>
    /\ req = <<>>

\* A request GET /v1/server/{ip}/embed arrives at a free handler.
Request(h) ==
    /\ pc[h] = "idle"
    /\ \E ip \in Requests : req' = [req EXCEPT ![h] = [NoRequest EXCEPT !.ip = ip]]
    /\ pc' = [pc EXCEPT ![h] = "get"]
    /\ UNCHANGED <<lock, cache_vars, api_vars, resolve_vars, parse_vars, favicon_vars>>

\* "with self._lock" of ThreadSafeTTLCache.get / .set: take the lock.
Acquire(h) ==
    /\ pc[h] \in {"get", "set"}
    /\ lock = NoHandler
    /\ lock' = h
    /\ pc' = [pc EXCEPT ![h] = IF pc[h] = "get" THEN "get_locked" ELSE "set_locked"]
    /\ UNCHANGED <<req, cache_vars, api_vars, resolve_vars, parse_vars, favicon_vars>>

\* cached = _server_cache.get(ip); if cached is not None: return cached
CacheGet_keeps_lock_on_miss(h) ==
    /\ pc[h] = "get_locked"
    /\ lock = h
    /\ LET r == TTLCache_get(cache, req[h].ip, now)
       IN  /\ cache' = r.cache
           /\ req' = [req EXCEPT ![h].server_info = r.result,
                                 ![h].events = Append(@, IF r.result # None
                                                         THEN "cache_hit" ELSE "cache_miss")]
           /\ pc' = [pc EXCEPT ![h] = IF r.result # None THEN "render" ELSE "fetch"]
           /\ lock' = IF r.result # None THEN NoHandler ELSE h
    /\ UNCHANGED <<now, api_vars, resolve_vars, parse_vars, favicon_vars>>

CacheGet_fetches_on_hit(h) ==
    /\ pc[h] = "get_locked"
    /\ lock = h
    /\ LET r == TTLCache_get(cache, req[h].ip, now)
       IN  /\ cache' = r.cache
           /\ req' = [req EXCEPT ![h].server_info = r.result,
                                 ![h].events = Append(@, IF r.result # None
                                                         THEN "cache_hit" ELSE "cache_miss")]
           /\ pc' = [pc EXCEPT ![h] = "fetch"]
    /\ lock' = NoHandler
    /\ UNCHANGED <<now, api_vars, resolve_vars, parse_vars, favicon_vars>>

CacheGet(h) ==
    /\ pc[h] = "get_locked"
    /\ lock = h
    /\ LET r == TTLCache_get(cache, req[h].ip, now)
       IN  /\ cache' = r.cache
           /\ req' = [req EXCEPT ![h].server_info = r.result,
                                 ![h].events = Append(@, IF r.result # None
                                                         THEN "cache_hit" ELSE "cache_miss")]
           /\ pc' = [pc EXCEPT ![h] = IF r.result # None THEN "render" ELSE "fetch"]
    /\ lock' = NoHandler
    /\ UNCHANGED <<now, api_vars, resolve_vars, parse_vars, favicon_vars>>

\* info = fetch_func(ip), which is get_server_info(ip).  The environment
\* decides what the host resolves to and what the server does.
FetchEvents(r) ==
    <<"resolve">> \o (IF r.upstream # "not_called" THEN <<"upstream">> ELSE <<>>)

FetchSingleFlight(h) ==
    /\ pc[h] = "fetch"
    /\ \E d \in DnsAnswers, u \in UpstreamOutcomes :
          LET r == get_server_info(req[h].ip, d, u)
              others == {g \in Handlers \ {h} : pc[g] = "set" /\ req[g].ip = req[h].ip}
          IN  IF others # {}
              THEN /\ req' = [req EXCEPT ![h].server_info =
                                            req[CHOOSE g \in others : TRUE].server_info]
                   /\ pc' = [pc EXCEPT ![h] = "render"]
              ELSE /\ req' = [req EXCEPT ![h].server_info = r.info,
                                         ![h].raised = r.raised,
                                         ![h].resolve_err = r.resolve_err,
                                         ![h].upstream = r.upstream,
                                         ![h].events = @ \o FetchEvents(r),
                                         ![h].fetched_at = now]
                   /\ pc' = [pc EXCEPT ![h] = IF r.raised # "none" THEN "raise" ELSE "set"]
    /\ UNCHANGED <<lock, cache_vars, api_vars, resolve_vars, parse_vars, favicon_vars>>

Fetch(h) ==
    /\ pc[h] = "fetch"
    /\ \E d \in DnsAnswers, u \in UpstreamOutcomes :
          LET r == get_server_info(req[h].ip, d, u)
          IN  /\ req' = [req EXCEPT ![h].server_info = r.info,
                                    ![h].raised = r.raised,
                                    ![h].resolve_err = r.resolve_err,
                                    ![h].upstream = r.upstream,
                                    ![h].events = @ \o FetchEvents(r),
                                    ![h].fetched_at = now]
              /\ pc' = [pc EXCEPT ![h] = IF r.raised # "none" THEN "raise" ELSE "set"]
    /\ UNCHANGED <<lock, cache_vars, api_vars, resolve_vars, parse_vars, favicon_vars>>

\* _server_cache.set(ip, info); return info
CacheSet_skips_offline(h) ==
    /\ pc[h] = "set_locked"
    /\ lock = h
    /\ cache' = IF req[h].server_info.online
                THEN TTLCache_setitem(cache, req[h].ip, req[h].server_info, now)
                ELSE cache
    /\ req' = [req EXCEPT ![h].events = Append(@, "cache_set")]
    /\ pc' = [pc EXCEPT ![h] = "render"]
    /\ lock' = NoHandler
    /\ UNCHANGED <<now, api_vars, resolve_vars, parse_vars, favicon_vars>>

CacheSet(h) ==
    /\ pc[h] = "set_locked"
    /\ lock = h
    /\ cache' = TTLCache_setitem(cache, req[h].ip, req[h].server_info, now)
    /\ req' = [req EXCEPT ![h].events = Append(@, "cache_set")]
    /\ pc' = [pc EXCEPT ![h] = "render"]
    /\ lock' = NoHandler
    /\ UNCHANGED <<now, api_vars, resolve_vars, parse_vars, favicon_vars>>

\* The rest of get_server_embed: the page is rendered and returned, or the
\* exception that came out of get_cached_server_info is turned into an error
\* response.
Respond(h) ==
    /\ pc[h] \in {"render", "raise"}
    /\ req' = [req EXCEPT ![h].status_code = http_status(req[h].raised)]
    /\ pc' = [pc EXCEPT ![h] = "done"]
    /\ UNCHANGED <<lock, cache_vars, api_vars, resolve_vars, parse_vars, favicon_vars>>

\* The handler is free again for the next request.
Release(h) ==
    /\ pc[h] = "done"
    /\ pc' = [pc EXCEPT ![h] = "idle"]
    /\ req' = [req EXCEPT ![h] = NoRequest]
    /\ UNCHANGED <<lock, cache_vars, api_vars, resolve_vars, parse_vars, favicon_vars>>

\* The timer of the cache advances.
Tick ==
    /\ now < ttl_seconds
    /\ now' = now + TickLength
    /\ UNCHANGED <<cache, lock, pc, req, api_vars, resolve_vars, parse_vars, favicon_vars>>

----------------------------------------------------------------------------
(* motd_parser.py: parse_motd *)

COLOR_CODES ==
    ("0" :> "mcformat-black") @@ ("1" :> "mcformat-dark-blue")
        @@ ("2" :> "mcformat-dark-green") @@ ("3" :> "mcformat-dark-aqua")
        @@ ("4" :> "mcformat-dark-red") @@ ("5" :> "mcformat-dark-purple")
        @@ ("6" :> "mcformat-gold") @@ ("7" :> "mcformat-gray")
        @@ ("8" :> "mcformat-dark-gray") @@ ("9" :> "mcformat-blue")
        @@ ("a" :> "mcformat-green") @@ ("b" :> "mcformat-aqua")
        @@ ("c" :> "mcformat-red") @@ ("d" :> "mcformat-light-purple")
        @@ ("e" :> "mcformat-yellow") @@ ("f" :> "mcformat-white")

FORMAT_CODES ==
    ("k" :> "mcformat-obfuscated") @@ ("l" :> "mcformat-bold")
        @@ ("m" :> "mcformat-strikethrough") @@ ("n" :> "mcformat-underline")
        @@ ("o" :> "mcformat-italic") @@ ("r" :> "mcformat-reset")

ColorClasses == {COLOR_CODES[c] : c \in DOMAIN COLOR_CODES}

\* The character that starts a formatting code.
Marker == "§"

\* str.lower() on one character (the letters; every other character is
\* left as it is).
Lower(c) ==
    CASE c = "A" -> "a" [] c = "B" -> "b" [] c = "C" -> "c" [] c = "D" -> "d"
      [] c = "E" -> "e" [] c = "F" -> "f" [] c = "G" -> "g" [] c = "H" -> "h"
      [] c = "I" -> "i" [] c = "J" -> "j" [] c = "K" -> "k" [] c = "L" -> "l"
      [] c = "M" -> "m" [] c = "N" -> "n" [] c = "O" -> "o" [] c = "P" -> "p"
      [] c = "Q" -> "q" [] c = "R" -> "r" [] c = "S" -> "s" [] c = "T" -> "t"
      [] c = "U" -> "u" [] c = "V" -> "v" [] c = "W" -> "w" [] c = "X" -> "x"
      [] c = "Y" -> "y" [] c = "Z" -> "z" [] OTHER -> c

\* str.replace(old, new) for a one-character old.
RECURSIVE Replace(_, _, _)
Replace(s, old, new) ==
    IF s = <<>> THEN <<>>
    ELSE (IF Head(s) = old THEN new ELSE <<Head(s)>>) \o Replace(Tail(s), old, new)

\* The four replace calls that escape the text, in the order of the code.
EscapeHtml_keeps_lt(s) ==
    Replace(Replace(Replace(s, "&", <<"&", "a", "m", "p", ";">>),
                    ">", <<"&", "g", "t", ";">>),
            "\"", <<"&", "q", "u", "o", "t", ";">>)

EscapeHtml(s) ==
    Replace(Replace(Replace(Replace(s, "&", <<"&", "a", "m", "p", ";">>),
                            "<", <<"&", "l", "t", ";">>),
                    ">", <<"&", "g", "t", ";">>),
            "\"", <<"&", "q", "u", "o", "t", ";">>)

\* The character class [0-9a-fk-or] under re.IGNORECASE.
CodeChars ==
    Digits \cup {"a", "b", "c", "d", "e", "f", "k", "l", "m", "n", "o", "r"}
           \cup {"A", "B", "C", "D", "E", "F", "K", "L", "M", "N", "O", "R"}

\* re.split(r'(§[0-9a-fk-or])', text): the text before the first match, then
\* for each match the match and the text up to the next match (or the end).
\* SplitFrom scans s from index i; cur is the text gathered since the last
\* match.
RECURSIVE SplitFrom(_, _, _)
SplitFrom(s, i, cur) ==
    IF i > Len(s) THEN <<cur>>
    ELSE IF s[i] = Marker /\ i + 1 <= Len(s) /\ s[i + 1] \in CodeChars
    THEN <<cur, <<s[i], s[i + 1]>>>> \o SplitFrom(s, i + 2, <<>>)
    ELSE SplitFrom(s, i + 1, Append(cur, s[i]))

re_split(s) == SplitFrom(s, 1, <<>>)

\* The branch of the loop body taken for a part that starts with the marker
\* and has two characters: the classes after it.
ClassesAfterCode_reset_keeps_styles(classes, code) ==
    IF code = "r" THEN SelectSeq(classes, LAMBDA c : c \notin ColorClasses)
    ELSE IF code \in DOMAIN COLOR_CODES
    THEN Append(SelectSeq(classes, LAMBDA c : c \notin ColorClasses), COLOR_CODES[code])
    ELSE IF code \in DOMAIN FORMAT_CODES
    THEN IF FORMAT_CODES[code] \notin SeqToSet(classes)
         THEN Append(classes, FORMAT_CODES[code]) ELSE classes
    ELSE classes

ClassesAfterCode_color_clears_styles(classes, code) ==
    IF code = "r" THEN <<>>
    ELSE IF code \in DOMAIN COLOR_CODES THEN <<COLOR_CODES[code]>>
    ELSE IF code \in DOMAIN FORMAT_CODES
    THEN IF FORMAT_CODES[code] \notin SeqToSet(classes)
         THEN Append(classes, FORMAT_CODES[code]) ELSE classes
    ELSE classes

ClassesAfterCode_color_first(classes, code) ==
    IF code = "r" THEN <<>>
    ELSE IF code \in DOMAIN COLOR_CODES
    THEN <<COLOR_CODES[code]>> \o SelectSeq(classes, LAMBDA c : c \notin ColorClasses)
    ELSE IF code \in DOMAIN FORMAT_CODES
    THEN IF FORMAT_CODES[code] \notin SeqToSet(classes)
         THEN Append(classes, FORMAT_CODES[code]) ELSE classes
    ELSE classes

ClassesAfterCode_style_appended_again(classes, code) ==
    IF code = "r" THEN <<>>
    ELSE IF code \in DOMAIN COLOR_CODES
    THEN Append(SelectSeq(classes, LAMBDA c : c \notin ColorClasses), COLOR_CODES[code])
    ELSE IF code \in DOMAIN FORMAT_CODES
    THEN Append(classes, FORMAT_CODES[code])
    ELSE classes

ClassesAfterCode_style_drops_color(classes, code) ==
    IF code = "r" THEN <<>>
    ELSE IF code \in DOMAIN COLOR_CODES
    THEN Append(SelectSeq(classes, LAMBDA c : c \notin ColorClasses), COLOR_CODES[code])
    ELSE IF code \in DOMAIN FORMAT_CODES
    THEN IF FORMAT_CODES[code] \notin SeqToSet(classes)
         THEN Append(SelectSeq(classes, LAMBDA c : c \notin ColorClasses), FORMAT_CODES[code])
         ELSE SelectSeq(classes, LAMBDA c : c \notin ColorClasses)
    ELSE classes

ClassesAfterCode(classes, code) ==
    IF code = "r" THEN <<>>
    ELSE IF code \in DOMAIN COLOR_CODES
    THEN Append(SelectSeq(classes, LAMBDA c : c \notin ColorClasses), COLOR_CODES[code])
    ELSE IF code \in DOMAIN FORMAT_CODES
    THEN IF FORMAT_CODES[code] \notin SeqToSet(classes)
         THEN Append(classes, FORMAT_CODES[code]) ELSE classes
    ELSE classes

\* An element of html_parts is a span: the words of its class attribute and
\* its content.  The spans the same branch appends.
CodeSpan(ch) == [class |-> <<"mcformat-code">>, body |-> <<Marker, ch>>]

SpansOfCode(part, code) ==
    IF code = "r" THEN <<CodeSpan("r")>>
    ELSE IF code \in DOMAIN COLOR_CODES \/ code \in DOMAIN FORMAT_CODES
    THEN <<CodeSpan(part[2])>>
    ELSE <<>>

\* The else branch: the span that wraps a text part.
TextSpan(classes, part) ==
    IF classes # <<>>
    THEN [class |-> <<"mcformat">> \o classes, body |-> part]
    ELSE [class |-> <<"mcformat", "mcformat-reset">>, body |-> part]

\* part.startswith(marker) and len(part) == 2
LooksLikeCode(part) == Len(part) = 2 /\ part[1] = Marker

\* Inputs of SpecParse: up to MaxAtoms pieces, each a marker sequence or a
\* plain character, put together into one text.
MaxAtoms == 4

MotdAtoms ==
    {<<Marker, "6">>, <<Marker, "4">>, <<Marker, "l">>, <<Marker, "o">>, <<Marker, "r">>,
     <<Marker, "L">>, <<Marker, "x">>, <<"x">>, <<"<">>}

MotdInputs == {Flatten(a) : a \in SeqsUpTo(MotdAtoms, MaxAtoms)}

InitParse ==
    /\ motd_text \in MotdInputs
    /\ parts = <<>>
    /\ part_idx = 0
    /\ current_classes = <<>>
    /\ html_parts = <<>>
    /\ motd_pc = "start"

IdleParse ==
    /\ motd_text = <<>>
    /\ parts = <<>>
    /\ part_idx = 0
    /\ current_classes = <<>>
    /\ html_parts = <<>>
    /\ motd_pc = "idle"

\* parse_motd up to the loop: return "" for an empty text, else escape and split.
ParseStart ==
    /\ motd_pc = "start"
    /\ IF motd_text = <<>>
       THEN /\ motd_pc' = "done"
            /\ UNCHANGED <<parts, part_idx>>
       ELSE /\ parts' = re_split(EscapeHtml(motd_text))
            /\ part_idx' = 1
            /\ motd_pc' = "loop"
    /\ UNCHANGED <<motd_text, current_classes, html_parts>>
    /\ UNCHANGED <<resolve_vars, cache_vars, api_vars, handler_vars, favicon_vars>>

\* One iteration of "for part in parts".
ParseStep ==
    /\ motd_pc = "loop"
    /\ part_idx <= Len(parts)
    /\ LET part == parts[part_idx]
       IN  IF part = <<>>
           THEN UNCHANGED <<current_classes, html_parts>>
           ELSE IF LooksLikeCode(part)
           THEN /\ current_classes' = ClassesAfterCode(current_classes, Lower(part[2]))
                /\ html_parts' = html_parts \o SpansOfCode(part, Lower(part[2]))
           ELSE /\ html_parts' = Append(html_parts, TextSpan(current_classes, part))
                /\ UNCHANGED current_classes
    /\ part_idx' = part_idx + 1
    /\ UNCHANGED <<motd_text, parts, motd_pc>>
    /\ UNCHANGED <<resolve_vars, cache_vars, api_vars, handler_vars, favicon_vars>>

\* return ''.join(html_parts)
ParseReturn ==
    /\ motd_pc = "loop"
    /\ part_idx > Len(parts)
    /\ motd_pc' = "done"
    /\ UNCHANGED <<motd_text, parts, part_idx, current_classes, html_parts>>
    /\ UNCHANGED <<resolve_vars, cache_vars, api_vars, handler_vars, favicon_vars>>

----------------------------------------------------------------------------
(* html_generator.py: validate_favicon *)

\* A favicon is a text of up to some 150,000 characters.  It is modelled as
\* its beginning, `head`, a sequence of characters, followed by `pad` more
\* characters of base64 payload, each of them "A".
PadChar == "A"

FaviconLen(f) == Len(f.head) + f.pad

CharAt(f, i) == IF i <= Len(f.head) THEN f.head[i] ELSE PadChar

\* favicon.startswith(prefix)
StartsWith(f, prefix) ==
    /\ Len(prefix) <= FaviconLen(f)
    /\ \A i \in 1..Len(prefix) : CharAt(f, i) = prefix[i]

\* needle in favicon.  A match that begins inside the padding would consist
\* of PadChar only, so the search stops at the end of the head unless the
\* needle is made of PadChar.
Contains(f, needle) ==
    LET last == IF SeqToSet(needle) \subseteq {PadChar}
                THEN FaviconLen(f) - Len(needle)
                ELSE IF Len(f.head) < FaviconLen(f) - Len(needle)
                THEN Len(f.head) ELSE FaviconLen(f) - Len(needle)
    IN  \E k \in 0..last : \A i \in 1..Len(needle) : CharAt(f, k + i) = needle[i]

DataScheme == <<"d", "a", "t", "a", ":">>

DataImage == DataScheme \o <<"i", "m", "a", "g", "e", "/">>

allowed_types ==
    <<DataImage \o <<"p", "n", "g">>,
      DataImage \o <<"j", "p", "e", "g">>,
      DataImage \o <<"j", "p", "g">>,
      DataImage \o <<"g", "i", "f">>,
      DataImage \o <<"w", "e", "b", "p">>>>

Base64Marker == <<"b", "a", "s", "e", "6", "4", ",">>

max_favicon_len == 150000

validate_favicon_limit_exclusive(f) ==
    IF FaviconLen(f) = 0 THEN FALSE
    ELSE IF ~StartsWith(f, DataScheme) THEN FALSE
    ELSE IF ~\E t \in 1..Len(allowed_types) : StartsWith(f, allowed_types[t]) THEN FALSE
    ELSE IF ~Contains(f, Base64Marker) THEN FALSE
    ELSE IF FaviconLen(f) >= max_favicon_len THEN FALSE
    ELSE TRUE

validate_favicon(f) ==
    IF FaviconLen(f) = 0 THEN FALSE
    ELSE IF ~StartsWith(f, DataScheme) THEN FALSE
    ELSE IF ~\E t \in 1..Len(allowed_types) : StartsWith(f, allowed_types[t]) THEN FALSE
    ELSE IF ~Contains(f, Base64Marker) THEN FALSE
    ELSE IF FaviconLen(f) > max_favicon_len THEN FALSE
    ELSE TRUE

\* Inputs of SpecFavicon: beginnings that pass or fail each test, each at its
\* own length, one character longer, and at the lengths around the limit.
Base64Tail == <<";">> \o Base64Marker

FaviconHeads ==
    {<<>>, DataScheme, DataImage}
      \cup {allowed_types[t] : t \in 1..Len(allowed_types)}
      \cup {allowed_types[t] \o Base64Tail : t \in 1..Len(allowed_types)}
      \cup {DataImage \o <<"s", "v", "g", "+", "x", "m", "l">> \o Base64Tail,
            DataScheme \o <<"t", "e", "x", "t", "/", "h", "t", "m", "l">> \o Base64Tail,
            DataImage \o <<"p", "n", "g", ";", "b", "a", "s", "e", "6", "4">>,
            DataImage \o <<"p", "n", "g", "x">> \o Base64Tail,
            DataImage \o <<"p", "n">>,
            <<"D">> \o Tail(DataImage) \o <<"p", "n", "g">> \o Base64Tail,
            Base64Marker \o DataImage \o <<"p", "n", "g">>,
            <<"h", "t", "t", "p", ":">> \o Base64Marker}

FaviconLengths(h) ==
    {Len(h), Len(h) + 1, max_favicon_len - 1, max_favicon_len, max_favicon_len + 1}

FaviconInputs ==
    UNION {{[head |-> h, pad |-> n - Len(h)] : n \in FaviconLengths(h)} : h \in FaviconHeads}

InitFavicon ==
    /\ favicon \in FaviconInputs
    /\ favicon_valid = "not_called"

IdleFavicon ==
    /\ favicon = [head |-> <<>>, pad |-> 0]
    /\ favicon_valid = "idle"

\* One call of validate_favicon.
ValidateFavicon ==
    /\ favicon_valid = "not_called"
    /\ favicon_valid' = IF validate_favicon(favicon) THEN "True" ELSE "False"
    /\ UNCHANGED favicon
    /\ UNCHANGED <<resolve_vars, cache_vars, api_vars, handler_vars, parse_vars>>

----------------------------------------------------------------------------
(* Specifications *)

InitResolveSpec == InitResolve /\ InitCacheObject /\ IdleApi /\ IdleHandlers /\ IdleParse /\ IdleFavicon

NextResolve == Resolve

SpecResolve == InitResolveSpec /\ [][NextResolve]_vars

InitCacheSpec == IdleResolve /\ InitCacheObject /\ InitApi /\ IdleHandlers /\ IdleParse /\ IdleFavicon

NextCache ==
    \/ \E k \in CacheKeys : ApiGet(k)
    \/ \E k \in CacheKeys, v \in CacheValues : ApiSet(k, v)
    \/ ApiClear
    \/ ApiSize
    \/ TickApi

SpecCache == InitCacheSpec /\ [][NextCache]_vars

Init == IdleResolve /\ InitCacheObject /\ IdleApi /\ InitHandlers /\ IdleParse /\ IdleFavicon

Next ==
    \/ \E h \in Handlers : Request(h)
    \/ \E h \in Handlers : Acquire(h)
    \/ \E h \in Handlers : CacheGet(h)
    \/ \E h \in Handlers : Fetch(h)
    \/ \E h \in Handlers : CacheSet(h)
    \/ \E h \in Handlers : Respond(h)
    \/ Tick

\* Two handlers, each serving one request: the requests overlap in any way.
Spec == Init /\ [][Next]_vars

\* One handler serving one request after the other.
NextServe ==
    \/ Request("h1")
    \/ Acquire("h1")
    \/ CacheGet("h1")
    \/ Fetch("h1")
    \/ CacheSet("h1")
    \/ Respond("h1")
    \/ Release("h1")
    \/ Tick

SpecServe == Init /\ [][NextServe]_vars

InitParseSpec == IdleResolve /\ InitCacheObject /\ IdleApi /\ IdleHandlers /\ InitParse /\ IdleFavicon

NextParse == ParseStart \/ ParseStep \/ ParseReturn

SpecParse == InitParseSpec /\ [][NextParse]_vars

InitFaviconSpec ==
    IdleResolve /\ InitCacheObject /\ IdleApi /\ IdleHandlers /\ IdleParse /\ InitFavicon

NextFavicon == ValidateFavicon

SpecFavicon == InitFaviconSpec /\ [][NextFavicon]_vars

----------------------------------------------------------------------------
(* Properties *)

NonPublic == IpKinds \ {"public"}

\* The inputs host:port whose port text is an integer of the denylist.
DenylistInputs ==
    {h \o <<":">> \o p :
        h \in Hosts,
        p \in {Dec(n) : n \in {20, 21, 22, 23, 25, 80, 443, 110, 143, 3306, 5432, 6379, 27017}}
                \cup {<<"0", "8", "0">>, <<"+", "2", "2">>}}

\* C3: for every input host:port whose port is an integer of the denylist,
\* parse_server_address fails with the blocked-port error whatever the host
\* is or resolves to, and the host is not looked up at all.
C3_BlockedPortWhateverHost ==
    (addr_result # NoResult /\ addr_ip \in DenylistInputs)
        => (addr_result.err = "BlockedPort" /\ ~addr_result.looked_up)

\* C3 witness: a blocked port on a host that resolves to a private address.
C3_Witness ==
    /\ addr_ip \in DenylistInputs
    /\ addr_dns = "private"
    /\ addr_result # NoResult
    /\ addr_result.err = "BlockedPort"

\* C4: when the address the host denotes or resolves to is private, loopback,
\* link-local, reserved or multicast, parse_server_address never returns a
\* (host, port) pair, and whenever it resolved the host it fails with the
\* private-address error.
C4_PrivateAddressRejected ==
    (addr_result # NoResult /\ addr_dns \in NonPublic)
        => /\ addr_result.err # "none"
           /\ addr_result.looked_up => addr_result.err = "PrivateAddress"

\* C4 witness: a host with an allowed port that resolves to a multicast
\* address is rejected as private.
C4_Witness ==
    /\ addr_result # NoResult
    /\ addr_dns = "multicast"
    /\ addr_result.looked_up
    /\ addr_result.err = "PrivateAddress"

\* C6: a get of a key returns the value of the latest set of that key while
\* less than ttl_seconds have passed since that set and the key was not
\* evicted or cleared; it returns None once ttl_seconds have passed since
\* the latest set, whatever gets happened in between, and None for a key
\* that was never set or was taken out.
C6_GetWithinTtl ==
    last_op.op = "get" =>
        LET w == written[last_op.key]
        IN  /\ (w.set /\ ~w.removed /\ now < w.time + ttl_seconds) => last_op.result = w.value
            /\ (w.set /\ ~w.removed /\ now >= w.time + ttl_seconds) => last_op.result = None
            /\ (~w.set \/ w.removed) => last_op.result = None

\* C6 witness: a get returns None for a key whose time to live has passed,
\* although the key was read after a key that was set later (so a get had
\* touched it since its set).
C6_Witness ==
    /\ last_op.op = "get"
    /\ last_op.result = None
    /\ written[last_op.key].set
    /\ ~written[last_op.key].removed
    /\ \E k2 \in CacheKeys \ {last_op.key} :
          /\ written[k2].set /\ ~written[k2].removed
          /\ written[k2].time > written[last_op.key].time
          /\ \E i, j \in 1..Len(usage) : i < j /\ usage[i] = k2 /\ usage[j] = last_op.key

\* C7: a set of a key that is not stored, into a cache that holds maxsize
\* unexpired entries, takes out exactly one entry: the one least recently
\* accessed by get or set.
C7_EvictsLeastRecentlyUsed ==
    (last_op.op = "set" /\ ~last_op.was_live /\ last_op.was_full)
        => last_op.removed = {last_op.lru_before}

\* C7 witness: such a set evicted an entry that had more time left than an
\* entry that stayed.
C7_Witness ==
    /\ last_op.op = "set"
    /\ ~last_op.was_live
    /\ last_op.was_full
    /\ last_op.lru_outlives
    /\ last_op.removed = {last_op.lru_before}

\* C8: the cache never holds more than maxsize entries, and size() never
\* reports more than maxsize.
C8_SizeWithinCapacity ==
    /\ Len(cache) <= maxsize
    /\ last_op.op = "size" => last_op.count <= maxsize

\* C8 witness: size() reports maxsize after some key has been taken out.
C8_Witness ==
    /\ last_op.op = "size"
    /\ last_op.count = maxsize
    /\ \E k \in CacheKeys : written[k] = Removed

Has(e, x) == \E i \in 1..Len(e) : e[i] = x

\* C1: in every request the address is resolved before the cache is
\* consulted, and when resolution fails the request does no cache get, no
\* cache set and no status fetch.
C1_ResolveBeforeCache ==
    \A h \in Handlers :
        LET e == req[h].events
        IN  /\ \A i \in 1..Len(e) :
                  e[i] = "resolve"
                      => \A j \in 1..(i - 1) : e[j] \notin {"cache_hit", "cache_miss", "cache_set"}
            /\ req[h].resolve_err \in ResolveErrors
                  => ~(Has(e, "cache_hit") \/ Has(e, "cache_miss") \/ Has(e, "cache_set")
                         \/ Has(e, "upstream"))

\* C2: a request whose address fails resolution ends with status 400.
C2_ResolveErrorIsClientError ==
    \A h \in Handlers :
        (pc[h] = "done" /\ req[h].resolve_err \in ResolveErrors) => req[h].status_code = 400

\* C5 as claimed: whenever the status call fails or raises, whatever the
\* exception, the handler gets the offline snapshot and nothing propagates.
C5_AnyFailureGoesOffline ==
    \A h \in Handlers :
        req[h].upstream \in (CaughtExceptions \cup {"Exception"})
            => /\ req[h].raised = "none"
               /\ req[h].server_info = OfflineInfo(req[h].ip)

\* C5 as amended: when the status call raises socket.timeout,
\* ConnectionRefusedError, another OSError or a ValueError, the handler gets
\* the offline snapshot (online false, no players, version unknown, no
\* icon), stores it and answers 200; an exception of another class
\* propagates, nothing is stored and the answer is 500.
C5_CaughtFailuresGoOffline ==
    \A h \in Handlers :
        /\ req[h].upstream \in CaughtExceptions
             => /\ req[h].raised = "none"
                /\ req[h].server_info = OfflineInfo(req[h].ip)
                /\ ~req[h].server_info.online
                /\ req[h].server_info.players_online = 0
                /\ req[h].server_info.players_max = 0
                /\ req[h].server_info.version = "Unknown"
                /\ req[h].server_info.favicon = "None"
                /\ pc[h] = "done" => req[h].status_code = 200
        /\ req[h].upstream = "Exception"
             => /\ req[h].raised = "Exception"
                /\ ~Has(req[h].events, "cache_set")
                /\ pc[h] = "done" => req[h].status_code = 500

\* C5 witness: a request whose status call timed out was answered with the
\* offline snapshot.
C5_Witness ==
    \E h \in Handlers :
        /\ pc[h] = "done"
        /\ req[h].upstream = "socket.timeout"
        /\ req[h].status_code = 200
        /\ ~req[h].server_info.online

\* C9: get_cached_server_info is not atomic and does not share fetches: every
\* handler that saw a miss calls the fetch function itself, also while
\* another handler is fetching the same key.
C9_EveryMissFetches ==
    \A h \in Handlers :
        (Has(req[h].events, "cache_miss") /\ pc[h] # "fetch")
            => (req[h].fetched_at >= 0 /\ Has(req[h].events, "resolve"))

\* C9 witness: two handlers asked for the same key, both saw a miss, and both
\* have called the fetch function within one time to live, before either
\* stored its result.
C9_Witness ==
    \E h, g \in Handlers :
        /\ h # g
        /\ req[h].ip = req[g].ip
        /\ pc[h] = "set" /\ pc[g] = "set"
        /\ Has(req[h].events, "cache_miss") /\ Has(req[g].events, "cache_miss")
        /\ req[h].fetched_at >= 0 /\ req[g].fetched_at >= 0
        /\ req[h].fetched_at - req[g].fetched_at < ttl_seconds
        /\ req[g].fetched_at - req[h].fetched_at < ttl_seconds
        /\ cache = EmptyCache

IsCodeSpan(e) == e.class = <<"mcformat-code">>

IsResetToken(part) == LooksLikeCode(part) /\ Lower(part[2]) = "r"

CountWhere(seq, Test(_)) == Cardinality({i \in 1..Len(seq) : Test(seq[i])})

\* C10: a reset code empties the active classes and is itself emitted as a
\* marker span, and every text span that follows a reset marker span, with no
\* other marker span in between, carries the default class "mcformat
\* mcformat-reset" only.
C10_NoLeakPastReset ==
    /\ (motd_pc = "loop" /\ part_idx > 1 /\ IsResetToken(parts[part_idx - 1]))
          => current_classes = <<>>
    /\ motd_pc \in {"loop", "done"}
          => CountWhere(html_parts, LAMBDA e : e = CodeSpan("r"))
               = CountWhere(SubSeq(parts, 1, part_idx - 1), IsResetToken)
    /\ \A i, j \in 1..Len(html_parts) :
          (/\ i < j
           /\ html_parts[i] = CodeSpan("r")
           /\ ~IsCodeSpan(html_parts[j])
           /\ \A m \in (i + 1)..(j - 1) : ~IsCodeSpan(html_parts[m]))
              => html_parts[j].class = <<"mcformat", "mcformat-reset">>

\* C10 witness: a colour marker and a style marker, then the reset marker,
\* then a text span, which has the default class.
C10_Witness ==
    /\ motd_pc = "done"
    /\ \E i \in 1..Len(html_parts) :
          /\ i + 3 <= Len(html_parts)
          /\ html_parts[i] = CodeSpan("6")
          /\ html_parts[i + 1] = CodeSpan("l")
          /\ html_parts[i + 2] = CodeSpan("r")
          /\ html_parts[i + 3] = TextSpan(<<>>, <<"x">>)

StyleClasses == {FORMAT_CODES[c] : c \in DOMAIN FORMAT_CODES \ {"r"}}

StylesOf(classes) == SelectSeq(classes, LAMBDA c : c \in StyleClasses)

ColorsOf(classes) == SelectSeq(classes, LAMBDA c : c \in ColorClasses)

IsColorToken(part) == LooksLikeCode(part) /\ Lower(part[2]) \in DOMAIN COLOR_CODES

IsStyleToken(part) == LooksLikeCode(part) /\ Lower(part[2]) \in DOMAIN FORMAT_CODES \ {"r"}

\* The loop is about to take the part `parts[part_idx]`.
AtPart == motd_pc = "loop" /\ part_idx <= Len(parts)

\* C11: a colour code replaces the active colour and leaves the active styles
\* as they are; the text that follows carries those styles and the new
\* colour, and not the old colour.
C11_ColorKeepsStyles ==
    [][/\ (AtPart /\ IsColorToken(parts[part_idx]))
            => (/\ StylesOf(current_classes') = StylesOf(current_classes)
                /\ ColorsOf(current_classes')
                      = <<COLOR_CODES[Lower(parts[part_idx][2])]>>)
       /\ (AtPart /\ parts[part_idx] # <<>> /\ ~LooksLikeCode(parts[part_idx])
              /\ current_classes # <<>>)
            => (/\ Len(html_parts') = Len(html_parts) + 1
                /\ html_parts'[Len(html_parts')].class
                      = <<"mcformat">> \o current_classes
                /\ current_classes' = current_classes)]_vars

\* C11 witness: bold, gold, then dark red: the text is bold and dark red and
\* not gold.
C11_Witness ==
    /\ motd_pc = "done"
    /\ motd_text = <<Marker, "l", Marker, "6", Marker, "4", "x">>
    /\ Len(html_parts) = 4
    /\ SeqToSet(html_parts[4].class) = {"mcformat", "mcformat-bold", "mcformat-dark-red"}

SetMax(S) == CHOOSE x \in S : \A y \in S : y <= x

SetMin(S) == CHOOSE x \in S : \A y \in S : x <= y

\* Among the first n parts: the place of the last reset code (0 if none).
LastReset(n) == SetMax({0} \cup {i \in 1..n : IsResetToken(parts[i])})

\* The class a colour or style code names.
ClassOfToken(part) ==
    IF IsColorToken(part) THEN COLOR_CODES[Lower(part[2])] ELSE FORMAT_CODES[Lower(part[2])]

\* The places, among the first n parts, at which the classes active after
\* them became active: a style at its first code since the last reset, the
\* colour at the last colour code since the last reset.
ActivationPlaces(n) ==
    LET since == (LastReset(n) + 1)..n
        colored == {i \in since : IsColorToken(parts[i])}
        styled == {i \in since : IsStyleToken(parts[i])}
    IN  (IF colored = {} THEN {} ELSE {SetMax(colored)})
          \cup {i \in styled : \A j \in styled :
                   j < i => ClassOfToken(parts[j]) # ClassOfToken(parts[i])}

\* The classes active after the first n parts, in the order of their places.
ActiveInOrder(n) ==
    LET places == ActivationPlaces(n)
        Nth(k) == CHOOSE p \in places : Cardinality({x \in places : x < p}) = k - 1
    IN  [k \in 1..Cardinality(places) |-> ClassOfToken(parts[Nth(k)])]

CanonicalStyles ==
    <<"mcformat-bold", "mcformat-strikethrough", "mcformat-underline",
      "mcformat-italic", "mcformat-obfuscated">>

CanonicalOrder(classes) ==
    ColorsOf(classes) \o SelectSeq(CanonicalStyles, LAMBDA c : c \in SeqToSet(classes))

\* The loop has just taken a text part.
AfterText ==
    /\ motd_pc \in {"loop", "done"}
    /\ part_idx > 1
    /\ parts[part_idx - 1] # <<>>
    /\ ~LooksLikeCode(parts[part_idx - 1])

\* C12 as stated: the class list of a text span is "mcformat", then the active
\* colour, then the active styles in the order bold, strikethrough, underline,
\* italic, obfuscated, whatever the order of the codes in the text.
C12_CanonicalClassOrder ==
    \A i \in 1..Len(html_parts) :
        (~IsCodeSpan(html_parts[i])
           /\ html_parts[i].class # <<"mcformat", "mcformat-reset">>)
          => html_parts[i].class
               = <<"mcformat">> \o CanonicalOrder(Tail(html_parts[i].class))

\* C12 amended: the class list of a text span is "mcformat", then the active
\* classes in the order in which they became active: a style at its first
\* code since the last reset, the colour at the last colour code.
C12_ActivationClassOrder ==
    motd_pc \in {"loop", "done"} =>
        LET active == ActiveInOrder(part_idx - 1)
        IN  /\ current_classes = active
            /\ AfterText =>
                  html_parts[Len(html_parts)].class
                    = (IF active = <<>>
                       THEN <<"mcformat", "mcformat-reset">>
                       ELSE <<"mcformat">> \o active)

\* C12 witness: italic, bold, then gold: the text carries them in that order.
C12_Witness ==
    /\ motd_pc = "done"
    /\ motd_text = <<Marker, "o", Marker, "l", Marker, "6", "x">>
    /\ html_parts[Len(html_parts)].class
          = <<"mcformat", "mcformat-italic", "mcformat-bold", "mcformat-gold">>

\* The text runs of a split: re.split with one group puts the text between
\* matches at the odd places and the matches at the even places.
LiteralRuns(ps) ==
    SelectSeq([k \in 1..((Len(ps) + 1) \div 2) |-> ps[2 * k - 1]], LAMBDA t : t # <<>>)

BodiesOf(spans) == [k \in 1..Len(spans) |-> spans[k].body]

\* C13: a two-character sequence that starts with the marker and is not a
\* known code is text: every text run of the split, such a sequence standing
\* alone or directly between two codes included, comes out as the content of
\* a text span, in order, and nothing is dropped.
C13_UnknownCodeIsLiteral ==
    motd_pc = "done" =>
        BodiesOf(SelectSeq(html_parts, LAMBDA e : ~IsCodeSpan(e))) = LiteralRuns(parts)

\* C17: the active classes hold at most one colour class and no class twice,
\* and a style code whose class is already active leaves them as they are
\* and still emits its marker span.
C17_AtMostOnce ==
    /\ [](/\ Len(ColorsOf(current_classes)) <= 1
          /\ \A i, j \in 1..Len(current_classes) :
                i # j => current_classes[i] # current_classes[j])
    /\ [][(/\ AtPart
           /\ IsStyleToken(parts[part_idx])
           /\ ClassOfToken(parts[part_idx]) \in SeqToSet(current_classes))
            => (/\ current_classes' = current_classes
                /\ html_parts' = Append(html_parts, CodeSpan(parts[part_idx][2])))]_vars

\* C17 witness: the bold code twice, then text: two marker spans, bold once.
C17_Witness ==
    /\ motd_pc = "done"
    /\ html_parts = <<CodeSpan("l"), CodeSpan("l"),
                      [class |-> <<"mcformat", "mcformat-bold">>, body |-> <<"x">>]>>

\* The characters that must not be left as they are in a text run.
Unescaped == {"<", ">", "\""}

\* C19: escaping before splitting does not change the split: the parts of the
\* escaped text are, place by place, the codes of the raw text unchanged and
\* the escaped text runs of the raw text, and no text span that is emitted
\* holds an unescaped <, > or ".  (The parts are looked at when the split has
\* just been made and the spans when the loop has ended: the loop changes no
\* part and removes no span.)
C19_EscapeKeepsTokens ==
    /\ (motd_pc = "loop" /\ part_idx = 1) =>
          LET raw == re_split(motd_text)
          IN  /\ Len(parts) = Len(raw)
              /\ \A i \in 1..Len(parts) :
                    IF i % 2 = 0 THEN parts[i] = raw[i]
                    ELSE /\ parts[i] = EscapeHtml(raw[i])
                         /\ SeqToSet(parts[i]) \cap Unescaped = {}
    /\ (motd_pc = "done" /\ motd_text # <<>>) =>
          LET raw == re_split(motd_text)
          IN  \A k \in 1..Len(html_parts) :
                  ~IsCodeSpan(html_parts[k])
                     => /\ SeqToSet(html_parts[k].body) \cap Unescaped = {}
                        /\ \E i \in 1..Len(raw) :
                              i % 2 = 1 /\ html_parts[k].body = EscapeHtml(raw[i])

\* C19 witness: "<" before and after a bold code: both come out escaped, with
\* the code between them.
C19_Witness ==
    /\ motd_pc = "done"
    /\ motd_text = <<"<", Marker, "l", "<">>
    /\ html_parts = <<TextSpan(<<>>, <<"&", "l", "t", ";">>), CodeSpan("l"),
                      TextSpan(<<"mcformat-bold">>, <<"&", "l", "t", ";">>)>>

\* A text span that directly follows the marker span of a style code.
TextAfterStyle(i) ==
    /\ i + 1 <= Len(html_parts)
    /\ IsCodeSpan(html_parts[i])
    /\ IsStyleToken(html_parts[i].body)
    /\ ~IsCodeSpan(html_parts[i + 1])

\* C20 as stated: the colour does not survive a style code: the text that
\* follows a style code carries no colour class.
C20_StyleDropsColor ==
    \A i \in 1..Len(html_parts) :
        TextAfterStyle(i) => ColorsOf(html_parts[i + 1].class) = <<>>

\* C20 amended: the colour survives a style code: a style code leaves the
\* active colour as it is and makes its style active, and the text that
\* follows a colour code and then a style code carries both classes.
C20_StyleKeepsColor ==
    /\ [][(AtPart /\ IsStyleToken(parts[part_idx]))
            => (/\ ColorsOf(current_classes') = ColorsOf(current_classes)
                /\ ClassOfToken(parts[part_idx]) \in SeqToSet(current_classes'))]_vars
    /\ [](\A i \in 2..Len(html_parts) :
            (/\ TextAfterStyle(i)
             /\ IsCodeSpan(html_parts[i - 1])
             /\ IsColorToken(html_parts[i - 1].body))
               => {ClassOfToken(html_parts[i - 1].body), ClassOfToken(html_parts[i].body)}
                     \subseteq SeqToSet(html_parts[i + 1].class))

\* C20 witness: gold, then bold, then text: the text is gold and bold.
C20_Witness ==
    /\ motd_pc = "done"
    /\ html_parts = <<CodeSpan("6"), CodeSpan("l"),
                      [class |-> <<"mcformat", "mcformat-gold", "mcformat-bold">>,
                       body |-> <<"x">>]>>

\* C14: validate_favicon returns true exactly when the favicon is not empty,
\* starts with one of the allowed image prefixes, contains the base64 marker
\* and is at most 150,000 characters long: 150,000 characters pass, 150,001
\* do not.
C14_FaviconAccepted ==
    favicon_valid \in {"True", "False"} =>
        LET wellformed ==
                /\ FaviconLen(favicon) > 0
                /\ \E t \in 1..Len(allowed_types) : StartsWith(favicon, allowed_types[t])
                /\ Contains(favicon, Base64Marker)
        IN  /\ favicon_valid = "True" <=> (wellformed /\ FaviconLen(favicon) <= 150000)
            /\ (wellformed /\ FaviconLen(favicon) = 150000) => favicon_valid = "True"
            /\ FaviconLen(favicon) = 150001 => favicon_valid = "False"

\* C14 witness: a PNG data URI of exactly 150,000 characters was accepted.
C14_Witness ==
    /\ favicon_valid = "True"
    /\ favicon.head = allowed_types[1] \o Base64Tail
    /\ FaviconLen(favicon) = 150000

\* The positions at which a handler is inside "with self._lock".
Locked == {"get_locked", "set_locked"}

\* C15: the lock has at most one holder, and a handler holds it exactly while
\* it is inside one cache call; a handler that is fetching does not hold it,
\* so another handler that waits for the lock can take it and a handler
\* inside a cache call can finish it.
C15_LockOnlyAroundCacheCalls ==
    /\ \A h \in Handlers : lock = h <=> pc[h] \in Locked
    /\ Cardinality({h \in Handlers : pc[h] \in Locked}) <= 1
    /\ \A h \in Handlers : pc[h] = "fetch" =>
          /\ lock # h
          /\ \A g \in Handlers \ {h} :
                /\ pc[g] \in {"get", "set"} => ENABLED Acquire(g)
                /\ pc[g] = "get_locked" => ENABLED CacheGet(g)
                /\ pc[g] = "set_locked" => ENABLED CacheSet(g)

\* C15 witness: while one handler is fetching, the other holds the lock for
\* a cache call.
C15_Witness ==
    /\ pc["h1"] = "fetch"
    /\ pc["h2"] = "set_locked"
    /\ lock = "h2"

\* The events of one call of get_cached_server_info that returned: a hit and
\* nothing else, or a miss, one fetch (the resolution and, if the address
\* passed, the status request) and one set.  (A call that the fetch leaves
\* with an exception has made the miss and the one fetch, and no set.)
ReturnedEvents ==
    {<<"cache_hit">>,
     <<"cache_miss", "resolve", "cache_set">>,
     <<"cache_miss", "resolve", "upstream", "cache_set">>}

\* C16: one call of get_cached_server_info.  On a hit the snapshot in the
\* cache is returned, the fetch is not invoked and no entry of the cache is
\* written.  On a miss the fetch is invoked once, what it returned is stored
\* under the key by one set, and that is what the call returns.
C16_HitOrOneFetchOneSet ==
    /\ [](\A h \in Handlers :
            /\ pc[h] \in {"render", "raise", "done"} =>
                  req[h].events \in (IF req[h].raised = "none" THEN ReturnedEvents
                                     ELSE {<<"cache_miss", "resolve", "upstream">>})
            /\ (pc[h] \in {"render", "done"} /\ req[h].events = <<"cache_hit">>)
                  => (req[h].fetched_at = -1 /\ req[h].upstream = "not_called"))
    /\ [][\A h \in Handlers :
            /\ (pc[h] = "get_locked" /\ pc'[h] = "render")
                  => (/\ req[h].ip \in LiveKeys(cache, now)
                      /\ req'[h].server_info = EntryOf(cache, req[h].ip).value
                      /\ SeqToSet(cache') = SeqToSet(cache))
            /\ (pc[h] = "get_locked" /\ pc'[h] \notin {"get_locked", "render"})
                  => (pc'[h] = "fetch" /\ req[h].ip \notin LiveKeys(cache, now))
            /\ (pc[h] = "set_locked" /\ pc'[h] # "set_locked")
                  => (/\ pc'[h] = "render"
                      /\ req'[h].server_info = req[h].server_info
                      /\ EntryOf(cache', req[h].ip).value = req[h].server_info)]_vars

\* C16 witness: a request that was a hit has been answered.
C16_Witness ==
    /\ pc["h1"] = "done"
    /\ req["h1"].events = <<"cache_hit">>
    /\ req["h1"].server_info # None
    /\ req["h1"].status_code = 200

\* The (host, port) pair parse_server_address makes of an address whose host
\* resolves to a public address: the port after the last colon, or the
\* default port.
NormalizedAddress(ip) ==
    LET a == parse_server_address(ip, "public") IN <<a.host, a.port>>

\* C18: the cache is looked up under the normalized address, so a request
\* never goes on to the fetch while the cache holds a live entry for an
\* address with the same host and port: after "h", a request for "h:25565"
\* within the TTL is a hit.
C18_SameAddressSameKey ==
    \A h \in Handlers :
        pc[h] = "fetch" =>
            ~\E k \in LiveKeys(cache, now) :
                 NormalizedAddress(k) = NormalizedAddress(req[h].ip)

\* The keys under which the cache holds a live offline snapshot at time t.
OfflineKeys(c, t) == {k \in LiveKeys(c, t) : ~EntryOf(c, k).value.online}

\* In this step a get for key k, which holds a live offline snapshot, ends:
\* it is a hit that returns the snapshot, and the handler goes on to render,
\* not to the fetch.
OfflineHit(k) ==
    \A h \in Handlers :
        (pc[h] = "get_locked" /\ req[h].ip = k /\ pc'[h] # "get_locked")
           => /\ pc'[h] = "render"
              /\ req'[h].server_info = EntryOf(cache, k).value
              /\ req'[h].events = Append(req[h].events, "cache_hit")

\* In this step the entry of k, still within its TTL afterwards, is kept.
KeptInStep(k) ==
    now' < EntryOf(cache, k).expires
       => (k \in KeysOf(cache') /\ EntryOf(cache', k) = EntryOf(cache, k))

\* In this step a set of another, new key finds the cache full of live
\* entries and k the least recently used of them.
EvictedInStep(k) ==
    \E h \in Handlers :
        /\ pc[h] = "set_locked" /\ pc'[h] = "render"
        /\ req[h].ip \notin LiveKeys(cache, now)
        /\ Cardinality(LiveKeys(cache, now)) = maxsize
        /\ Head(TTLCache_expire(cache, now)).key = k

\* C21 as stated: an offline snapshot stored for k stays in the cache for its
\* whole TTL, and every get for k in that time is a hit that returns it
\* without a fetch.
C21_OfflineKeptForTtl ==
    [][\A k \in OfflineKeys(cache, now) : OfflineHit(k) /\ KeptInStep(k)]_vars

\* C21 amended: an offline snapshot is stored like any other, under the key
\* and with the full TTL; while its entry is in the cache and live, every get
\* for k is a hit that returns it without a fetch; and the entry leaves the
\* cache before its TTL has passed only by being evicted as the least
\* recently used entry when a new key is stored into the full cache.
C21_OfflineKeptUnlessEvicted ==
    [][/\ \A h \in Handlers :
             (pc[h] = "set_locked" /\ pc'[h] = "render")
                => /\ req[h].ip \in KeysOf(cache')
                   /\ EntryOf(cache', req[h].ip)
                         = [key |-> req[h].ip, value |-> req[h].server_info,
                            expires |-> now + ttl_seconds]
       /\ \A k \in OfflineKeys(cache, now) :
             /\ OfflineHit(k)
             /\ KeptInStep(k) \/ EvictedInStep(k)]_vars

\* C21 witness: a request has been answered from the cache with an offline
\* snapshot, without a fetch.
C21_Witness ==
    /\ pc["h1"] = "done"
    /\ req["h1"].events = <<"cache_hit">>
    /\ req["h1"].server_info = OfflineInfo(req["h1"].ip)
    /\ req["h1"].upstream = "not_called"

====
